---- MODULE Spec2Model ----
(***************************************************************************)
(* Model of src/dashboard.py: the Streamlit sales dashboard.               *)
(*                                                                         *)
(* One run of the script is one render cycle: the module body reads the    *)
(* customer file, main() loads the five CSV files, builds the sales view   *)
(* (create_sales_data), computes the KPIs (calculate_kpis), applies the    *)
(* sidebar filters, builds the chart aggregations (create_charts) and      *)
(* renders.  Data frames are modelled as a set of column names and a       *)
(* sequence of rows; a row always carries every field, and a field whose   *)
(* column is absent, or whose value is NaN/NaT, holds NULL (NoName for the *)
(* two name columns).  Floating point numbers are modelled by exact        *)
(* integers and by fractions [num, den]; den = 0 is NaN.                   *)
(***************************************************************************)
EXTENDS Integers, Sequences, FiniteSets, TLC

\* ------------------------------------------------------------------ bounds
MaxEvents   == 2    \* rows of events_clean.csv
MaxProducts == 2    \* rows of producto_clean.csv

\* ------------------------------------------------------- values of pandas
NULL   == -1        \* NaN / NaT / None in a numeric or date column
NoName == "NaN"     \* NaN in a name column
NaN    == [num |-> 0, den |-> 0]
Zero   == [num |-> 0, den |-> 1]
One    == [num |-> 1, den |-> 1]

IsNaN(x)  == x.den = 0

DefaultPrecio == 100     \* fillna(100)
RevenueLow    == 50      \* np.random.uniform(50, 500, n)
RevenueHigh   == 500
PctThreshold2 == 3       \* twice the 1.5 % share threshold of the pie chart

\* ------------------------------------------------------------ input tables
\* The optional columns of the source files.
EventCols   == {"visitorid", "itemid", "transactionid", "event_time"}
ProductCols == {"precio", "marca_id"}
Profiles    == {e \cup p : e \in SUBSET EventCols, p \in SUBSET ProductCols}

Files == {"categoria", "cliente", "events", "marca", "producto"}

\* categoria_clean.csv: ids 1 and 2.
Categoria == << [id |-> 1, categoria |-> "c1"], [id |-> 2, categoria |-> "c2"] >>
\* marca_clean.csv: empty, or the one brand 7.
MarcaTables == { << >>, << [id |-> 7, marca |-> "m7"] >> }

\* Rows producto_clean.csv may hold: product 10 (category 1, brand 7,
\* price 100), product 11 (category 2, a brand id no brand row has, price 1),
\* a second row for id 10 whose category id matches no category and whose
\* brand and price are empty, and product 11 without a price.
ProductRows ==
  << [id |-> 10, categoria_id |-> 1, marca_id |-> 7,    precio |-> 100],
     [id |-> 11, categoria_id |-> 2, marca_id |-> 8,    precio |-> 1],
     [id |-> 10, categoria_id |-> 3, marca_id |-> NULL, precio |-> NULL],
     [id |-> 11, categoria_id |-> 2, marca_id |-> 7,    precio |-> NULL] >>

\* Rows events_clean.csv may hold: visitor 1 buys items 10 and 11 in
\* transaction 1 on days 1 and 2, visitor 2 buys item 10 in transaction 2,
\* visitor 1 buys item 11 in transaction 2, visitor 2 views item 11 (no
\* transaction, unparsed time), visitor 1 views item 10 on day 1.
\* Transaction ids 1 and 2 stand for "A" and "B", dates for days 1 and 2.
EventRows ==
  << [visitorid |-> 1, itemid |-> 10, transactionid |-> 1,    event_time |-> 1],
     [visitorid |-> 1, itemid |-> 11, transactionid |-> 1,    event_time |-> 2],
     [visitorid |-> 2, itemid |-> 10, transactionid |-> 2, event_time |-> 1],
     [visitorid |-> 1, itemid |-> 11, transactionid |-> 2,    event_time |-> 2],
     [visitorid |-> 2, itemid |-> 11, transactionid |-> NULL, event_time |-> NULL],
     [visitorid |-> 1, itemid |-> 10, transactionid |-> NULL, event_time |-> 1] >>

\* Sequences over 1..n of length at most k whose entries strictly increase
\* (products) or never decrease (events): a table up to the order of its rows.
RECURSIVE IndexSeqs(_, _)
IndexSeqs(n, k) ==
  IF k = 0 THEN { << >> }
  ELSE LET shorter == IndexSeqs(n, k - 1)
       IN shorter \cup
          { Append(s, i) : s \in { t \in shorter : Len(t) = k - 1 }, i \in 1..n }

Increasing(s, strict) ==
  \A i \in 1..(Len(s) - 1) : IF strict THEN s[i] < s[i + 1] ELSE s[i] <= s[i + 1]

ProductTables ==
  { [i \in 1..Len(s) |-> ProductRows[s[i]]] :
      s \in { t \in IndexSeqs(Len(ProductRows), MaxProducts) : Increasing(t, TRUE) } }

\* A column that the profile lacks holds NULL in every row.
ProjectEvent(r, profile) ==
  [visitorid     |-> IF "visitorid" \in profile THEN r.visitorid ELSE NULL,
   itemid        |-> IF "itemid" \in profile THEN r.itemid ELSE NULL,
   transactionid |-> IF "transactionid" \in profile THEN r.transactionid ELSE NULL,
   event_time    |-> IF "event_time" \in profile THEN r.event_time ELSE NULL]

EventTables ==
  { [i \in 1..Len(s) |-> EventRows[s[i]]] :
      s \in { t \in IndexSeqs(Len(EventRows), MaxEvents) : Increasing(t, FALSE) } }

ProjectProduct(p, profile) ==
  [id |-> p.id, categoria_id |-> p.categoria_id,
   marca_id |-> IF "marca_id" \in profile THEN p.marca_id ELSE NULL,
   precio   |-> IF "precio" \in profile THEN p.precio ELSE NULL]

\* --------------------------------------------------------------- helpers
RECURSIVE Flatten(_)
Flatten(ss) == IF ss = << >> THEN << >> ELSE Head(ss) \o Flatten(Tail(ss))

RECURSIVE SumSeq(_)
SumSeq(s) == IF s = << >> THEN 0 ELSE Head(s) + SumSeq(Tail(s))

RECURSIVE SumSet(_)
SumSet(S) == IF S = {} THEN 0 ELSE LET x == CHOOSE y \in S : TRUE IN x[2] + SumSet(S \ {x})

Revenues(rows) == [i \in 1..Len(rows) |-> rows[i].revenue]

\* Series.mean(): NaN for an empty series.
Mean(s) == [num |-> SumSeq(s), den |-> Len(s)]

\* ------------------------------------------------------ create_sales_data
\* The transaction filter without its fallback to all events.
TransactionFilterNoFallback(events, has_transactionid) ==
  IF has_transactionid
  THEN SelectSeq(events, LAMBDA r : r.transactionid # NULL)
  ELSE events

\* events[events['transactionid'].notna()], or all events if that is empty
\* or there is no such column.
TransactionFilter(events, has_transactionid) ==
  IF has_transactionid
  THEN LET sales_events == SelectSeq(events, LAMBDA r : r.transactionid # NULL)
       IN IF sales_events = << >> THEN events ELSE sales_events
  ELSE events

SalesRow(e, categoria_id, marca_id, precio) ==
  [visitorid |-> e.visitorid, itemid |-> e.itemid,
   transactionid |-> e.transactionid, event_time |-> e.event_time,
   categoria_id |-> categoria_id, marca_id |-> marca_id, precio |-> precio,
   categoria_nombre |-> NoName, marca_nombre |-> NoName, revenue |-> NULL]

\* The product merge as an inner join: an event no product row matches is lost.
ProductMergeInner(sales_events, producto) ==
  Flatten([i \in 1..Len(sales_events) |->
    LET e == sales_events[i]
        m == SelectSeq(producto, LAMBDA p : p.id = e.itemid)
    IN [j \in 1..Len(m) |->
          SalesRow(e, m[j].categoria_id, m[j].marca_id, m[j].precio)]])

\* sales_events.merge(producto[producto_cols], left_on='itemid',
\* right_on='id', how='left'): one row per matching product row, one row of
\* NaN for an event no product row matches.
ProductMerge(sales_events, producto) ==
  Flatten([i \in 1..Len(sales_events) |->
    LET e == sales_events[i]
        m == SelectSeq(producto, LAMBDA p : p.id = e.itemid)
    IN IF m = << >> THEN << SalesRow(e, NULL, NULL, NULL) >>
       ELSE [j \in 1..Len(m) |->
               SalesRow(e, m[j].categoria_id, m[j].marca_id, m[j].precio)]])

\* Without itemid: np.random.choice of a category id (and of a brand id) per row.
SyntheticAssign(sales_events, rndCat, rndMarca, with_marca) ==
  [i \in 1..Len(sales_events) |->
     SalesRow(sales_events[i], rndCat[i],
              IF with_marca THEN rndMarca[i] ELSE NULL, NULL)]

\* merge(categoria[['id','categoria']], left_on='categoria_id', how='left')
CategoryMerge(rows, categoria) ==
  Flatten([i \in 1..Len(rows) |->
    LET m == SelectSeq(categoria, LAMBDA c : c.id = rows[i].categoria_id)
    IN IF m = << >> THEN << rows[i] >>
       ELSE [j \in 1..Len(m) |-> [rows[i] EXCEPT !.categoria_nombre = m[j].categoria]]])

\* merge(marca[['id','marca']], left_on='marca_id', how='left') when the
\* products have marca_id and the brand table is not empty; else 'Sin Marca'.
BrandMerge(rows, marca, has_marca_id) ==
  IF has_marca_id /\ marca # << >>
  THEN Flatten([i \in 1..Len(rows) |->
         LET m == SelectSeq(marca, LAMBDA b : b.id = rows[i].marca_id)
         IN IF m = << >> THEN << rows[i] >>
            ELSE [j \in 1..Len(m) |-> [rows[i] EXCEPT !.marca_nombre = m[j].marca]]])
  ELSE [i \in 1..Len(rows) |-> [rows[i] EXCEPT !.marca_nombre = "Sin Marca"]]

\* Revenue with the fillna(100) left out: a NaN price stays NaN.
RevenueNoFill(rows, use_precio, rndRev) ==
  [i \in 1..Len(rows) |->
     [rows[i] EXCEPT !.revenue = IF use_precio THEN rows[i].precio ELSE rndRev[i]]]

\* Revenue with a NaN price filled by the row's random draw instead of 100.
RevenueFillRandom(rows, use_precio, rndRev) ==
  [i \in 1..Len(rows) |->
     [rows[i] EXCEPT !.revenue =
        IF use_precio /\ rows[i].precio # NULL THEN rows[i].precio ELSE rndRev[i]]]

\* sales_data['precio'].fillna(100), or a uniform draw per row.
Revenue(rows, use_precio, rndRev) ==
  [i \in 1..Len(rows) |->
     [rows[i] EXCEPT !.revenue =
        IF use_precio
        THEN (IF rows[i].precio = NULL THEN DefaultPrecio ELSE rows[i].precio)
        ELSE rndRev[i]]]

TemporalCols == {"year", "month", "day_name", "hour"}

\* The rows of the sales view before revenue is derived (lines 93-139).
JoinedRows(events, producto, categoria, marca, profile, rndCat, rndMarca) ==
  LET has_marca_id == "marca_id" \in profile
      sales_events == TransactionFilter(events, "transactionid" \in profile)
      sales_data   == IF "itemid" \in profile
                      THEN ProductMerge(sales_events, producto)
                      ELSE SyntheticAssign(sales_events, rndCat, rndMarca,
                                           has_marca_id /\ marca # << >>)
  IN BrandMerge(CategoryMerge(sales_data, categoria), marca, has_marca_id)

\* The columns of the sales view.
SalesCols(rows, marca, profile) ==
  LET has_itemid == "itemid" \in profile
  IN (profile \cap EventCols)
     \cup {"categoria_id", "categoria_nombre", "marca_nombre", "revenue"}
     \cup (IF has_itemid THEN {"id", "producto_nombre"} ELSE {})
     \cup (IF "marca_id" \in profile /\ (has_itemid \/ marca # << >>)
          THEN {"marca_id"} ELSE {})
     \cup (IF has_itemid /\ "precio" \in profile THEN {"precio"} ELSE {})
     \cup (IF "event_time" \in profile /\ \E i \in 1..Len(rows) : rows[i].event_time # NULL
          THEN TemporalCols ELSE {})

create_sales_data(events, producto, categoria, marca, profile, rndCat, rndMarca, rndRev) ==
  LET joined == JoinedRows(events, producto, categoria, marca, profile, rndCat, rndMarca)
      cols   == SalesCols(joined, marca, profile)
  IN [cols |-> cols,
      rows |-> Revenue(joined, "precio" \in profile /\ "precio" \in cols, rndRev)]

\* --------------------------------------------------------- calculate_kpis
Keys(rows, col) == { rows[i][col] : i \in 1..Len(rows) } \ {NULL}
Group(rows, col, k) == SelectSeq(rows, LAMBDA r : r[col] = k)

\* groupby(col)['revenue'].sum().mean(): rows whose key is NaN form no group.
MeanGroupRevenue(rows, col) ==
  LET ks == Keys(rows, col)
  IN [num |-> SumSet({ <<k, SumSeq(Revenues(Group(rows, col, k)))>> : k \in ks }),
      den |-> Cardinality(ks)]

\* groupby(col)[of].nunique(): per group, the number of distinct non-null values.
NUnique(rows, col, of) ==
  { <<k, Cardinality(Keys(Group(rows, col, k), of))>> : k \in Keys(rows, col) }

\* KPI 2 counting the records without a transaction id (isna for notna).
ConversionRateCountsNull(sales_data, events) ==
  LET total_events == Len(events.rows)
      transactions ==
        IF "transactionid" \in sales_data.cols
        THEN Len(SelectSeq(sales_data.rows, LAMBDA r : r.transactionid = NULL))
        ELSE Len(sales_data.rows)
  IN IF total_events > 0
     THEN [num |-> transactions * 100, den |-> total_events]
     ELSE Zero

\* KPI 2 (lines 166-172).
ConversionRate(sales_data, events) ==
  LET total_events == Len(events.rows)
      transactions ==
        IF "transactionid" \in sales_data.cols
        THEN Len(SelectSeq(sales_data.rows, LAMBDA r : r.transactionid # NULL))
        ELSE Len(sales_data.rows)
  IN IF total_events > 0
     THEN [num |-> transactions * 100, den |-> total_events]
     ELSE Zero

\* KPI 4 with 0 for 1.0 where the columns are missing.
AvgItemsPerTransactionElseZero(sales_data) ==
  IF "transactionid" \in sales_data.cols /\ "itemid" \in sales_data.cols
  THEN LET n == NUnique(sales_data.rows, "transactionid", "itemid")
       IN [num |-> SumSet(n), den |-> Cardinality(n)]
  ELSE Zero

\* KPI 4 (lines 178-181).
AvgItemsPerTransaction(sales_data) ==
  IF "transactionid" \in sales_data.cols /\ "itemid" \in sales_data.cols
  THEN LET n == NUnique(sales_data.rows, "transactionid", "itemid")
       IN [num |-> SumSet(n), den |-> Cardinality(n)]
  ELSE One

\* KPI 5 (lines 184-187).
TicketPromedio(sales_data) ==
  IF "transactionid" \in sales_data.cols
  THEN MeanGroupRevenue(sales_data.rows, "transactionid")
  ELSE Mean(Revenues(sales_data.rows))

\* KPI 6 counting the visitors with at least one purchase as recurrent.
TasaRepeticionAtLeastOne(sales_data) ==
  LET compras_por_cliente  == NUnique(sales_data.rows, "visitorid", "transactionid")
      clientes_recurrentes == Cardinality({ c \in compras_por_cliente : c[2] >= 1 })
      count                == Cardinality(compras_por_cliente)
  IN IF count > 0 THEN [num |-> clientes_recurrentes * 100, den |-> count] ELSE Zero

\* KPI 6 (lines 190-195); reached only with a visitorid column.
TasaRepeticion(sales_data) ==
  LET compras_por_cliente  == NUnique(sales_data.rows, "visitorid", "transactionid")
      clientes_recurrentes == Cardinality({ c \in compras_por_cliente : c[2] > 1 })
      count                == Cardinality(compras_por_cliente)
  IN IF count > 0 THEN [num |-> clientes_recurrentes * 100, den |-> count] ELSE Zero

\* The if-branch of line 161 is taken.
KpiBranch(sales_data) == sales_data.rows # << >> /\ "visitorid" \in sales_data.cols

\* Line 191 selects the transactionid column of the grouped frame: KeyError
\* when the sales view has no such column.
KpisRaise(sales_data) == KpiBranch(sales_data) /\ "transactionid" \notin sales_data.cols

AllZeroKpis ==
  [avg_clv |-> Zero, conversion_rate |-> Zero, avg_order_value |-> Zero,
   avg_items_per_transaction |-> Zero, ticket_promedio |-> Zero,
   tasa_repeticion |-> Zero]

calculate_kpis(sales_data, events) ==
  IF KpiBranch(sales_data)
  THEN [avg_clv |-> MeanGroupRevenue(sales_data.rows, "visitorid"),
        conversion_rate |-> ConversionRate(sales_data, events),
        avg_order_value |-> Mean(Revenues(sales_data.rows)),
        avg_items_per_transaction |-> AvgItemsPerTransaction(sales_data),
        ticket_promedio |-> TicketPromedio(sales_data),
        tasa_repeticion |-> TasaRepeticion(sales_data)]
  ELSE AllZeroKpis

\* ----------------------------------------------------------- create_charts
\* groupby sorts its keys: the category names in the order of the table.
NameOrder == [i \in 1..Len(Categoria) |-> Categoria[i].categoria]

\* groupby('categoria_nombre')['revenue'].sum().reset_index(): rows whose
\* category name is NaN belong to no group.
CatSales(rows) ==
  LET present == SelectSeq(NameOrder, LAMBDA n : \E i \in 1..Len(rows) : rows[i].categoria_nombre = n)
  IN [i \in 1..Len(present) |->
        [categoria_nombre |-> present[i],
         revenue |-> SumSeq(Revenues(Group(rows, "categoria_nombre", present[i])))]]

\* pct = revenue / total * 100 compared with 1.5; a NaN pct (total = 0)
\* is neither >= 1.5 nor < 1.5.
IsMainCat(c, total)  == total # 0 /\ 200 * c.revenue >= PctThreshold2 * total
IsOtherCat(c, total) == total # 0 /\ 200 * c.revenue <  PctThreshold2 * total

\* Lines 220-234: the rows of the pie chart.
CatSalesPlot(rows) ==
  LET cat_sales  == CatSales(rows)
      total      == SumSeq(Revenues(cat_sales))
      main_cats  == SelectSeq(cat_sales, LAMBDA c : IsMainCat(c, total))
      other_cats == SelectSeq(cat_sales, LAMBDA c : IsOtherCat(c, total))
  IN IF other_cats # << >>
     THEN Append(main_cats, [categoria_nombre |-> "Otras",
                             revenue |-> SumSeq(Revenues(other_cats))])
     ELSE main_cats

\* groupby(col)['revenue'].sum() as a set of <<key, revenue>>; the bounds
\* give fewer than ten groups, so head(10) keeps them all.
RevenueBy(rows, col) ==
  { <<k, SumSeq(Revenues(Group(rows, col, k)))>> : k \in Keys(rows, col) }

RevenueByName(rows, col) ==
  { <<n, SumSeq(Revenues(Group(rows, col, n)))>> :
      n \in { rows[i][col] : i \in 1..Len(rows) } \ {NoName} }

\* Lines 278 and 279 group by visitorid and by itemid without looking for
\* the column: KeyError when the view is not empty and lacks one of them.
ChartsRaise(sales_data) ==
  sales_data.rows # << >>
  /\ ("visitorid" \notin sales_data.cols \/ "itemid" \notin sales_data.cols)

NoCharts ==
  [keys |-> {}, cat_sales_plot |-> << >>, ventas_categoria |-> << >>,
   ventas_marca |-> {}, ventas_cliente |-> {}, ventas_producto |-> {},
   ventas_fecha |-> {}]

create_charts(sales_data, events) ==
  LET rows == sales_data.rows
      has_time == "event_time" \in sales_data.cols
      event_keys == IF events.rows # << >> THEN {"event_distribution"} ELSE {}
  IN IF rows # << >>
     THEN [keys |-> {"category_sales", "brand_sales", "ventas_cliente",
                     "ventas_producto", "ventas_categoria", "ventas_marca"}
                    \cup (IF has_time THEN {"time_sales", "ventas_fecha"} ELSE {})
                    \cup event_keys,
           cat_sales_plot   |-> CatSalesPlot(rows),
           ventas_categoria |-> CatSales(rows),
           ventas_marca     |-> RevenueByName(rows, "marca_nombre"),
           ventas_cliente   |-> RevenueBy(rows, "visitorid"),
           ventas_producto  |-> RevenueBy(rows, "itemid"),
           ventas_fecha     |-> IF has_time THEN RevenueBy(rows, "event_time") ELSE {}]
     ELSE [NoCharts EXCEPT !.keys = event_keys]

\* ------------------------------------------------------------------- main
VARIABLES
  pc,          \* position of the script
  files,       \* per source file: "ok", or "bad" (missing or malformed)
  profile,     \* optional columns the files have
  events,      \* events frame
  producto,    \* rows of the product file
  marca,       \* rows of the brand file
  errors,      \* number of st.error calls
  sales_data,  \* the sales view main holds
  kpis,        \* result of calculate_kpis
  charts,      \* result of create_charts
  built,       \* which of sales_data, kpis, charts have been built
  exc          \* the function an uncaught exception came from, or "none"

vars == <<pc, files, profile, events, producto, marca, errors, sales_data,
          kpis, charts, built, exc>>

NoFrame == [cols |-> {}, rows |-> << >>]

\* What is on disk.  When a file cannot be read the contents of the others
\* are never looked at.
Init ==
  /\ pc = "import"
  /\ files \in [Files -> {"ok", "bad"}]
  /\ \/ /\ \A f \in Files : files[f] = "ok"
        /\ profile \in Profiles
        /\ \E t \in EventTables :
             events = [cols |-> profile \cap EventCols,
                       rows |-> [i \in 1..Len(t) |-> ProjectEvent(t[i], profile)]]
        /\ \E t \in ProductTables :
             producto = [i \in 1..Len(t) |-> ProjectProduct(t[i], profile)]
        /\ marca \in MarcaTables
     \/ /\ \E f \in Files : files[f] = "bad"
        /\ profile = {}
        /\ events = NoFrame
        /\ producto = << >>
        /\ marca = << >>
  /\ errors = 0
  /\ sales_data = NoFrame
  /\ kpis = AllZeroKpis
  /\ charts = NoCharts
  /\ built = {}
  /\ exc = "none"

inputs == <<files, profile, events, producto, marca>>

\* Lines 300-304, run when the script is loaded: pd.read_csv of the customer
\* file outside any try block.
ModuleBody ==
  /\ pc = "import"
  /\ IF files["cliente"] = "ok"
     THEN pc' = "main" /\ exc' = exc
     ELSE pc' = "uncaught" /\ exc' = "module"
  /\ UNCHANGED <<inputs, errors, sales_data, kpis, charts, built>>

\* load_data (lines 64-87), called at line 332: any failure is caught,
\* shown with st.error, and None is returned for every table.
LoadData ==
  /\ pc = "main"
  /\ IF \A f \in Files : files[f] = "ok"
     THEN pc' = "loaded" /\ errors' = errors
     ELSE pc' = "load_failed" /\ errors' = errors + 1
  /\ UNCHANGED <<inputs, sales_data, kpis, charts, built, exc>>

\* Lines 334-336: categoria is None.
LoadFailed ==
  /\ pc = "load_failed"
  /\ errors' = errors + 1
  /\ pc' = "halted"
  /\ UNCHANGED <<inputs, sales_data, kpis, charts, built, exc>>

\* The draws of np.random: one value of S per row when drawn.
Draws(n, S, drawn) == IF drawn THEN [1..n -> S] ELSE { [i \in 1..n |-> NULL] }

\* Line 339.
CreateSalesData ==
  /\ pc = "loaded"
  /\ LET n == Len(TransactionFilter(events.rows, "transactionid" \in profile))
         synthetic == "itemid" \notin profile
     IN \E rndCat \in Draws(n, { Categoria[i].id : i \in 1..Len(Categoria) }, synthetic) :
        \E rndMarca \in Draws(n, { marca[i].id : i \in 1..Len(marca) },
                              synthetic /\ "marca_id" \in profile /\ marca # << >>) :
          LET m == Len(JoinedRows(events.rows, producto, Categoria, marca, profile,
                                  rndCat, rndMarca))
          IN \E rndRev \in Draws(m, {RevenueLow, RevenueHigh},
                                 synthetic \/ "precio" \notin profile) :
               sales_data' = create_sales_data(events.rows, producto, Categoria, marca,
                                               profile, rndCat, rndMarca, rndRev)
  /\ built' = built \cup {"sales_data"}
  /\ pc' = "sales"
  /\ UNCHANGED <<inputs, errors, kpis, charts, exc>>

\* Line 342.
CalculateKpis ==
  /\ pc = "sales"
  /\ IF KpisRaise(sales_data)
     THEN pc' = "uncaught" /\ exc' = "calculate_kpis" /\ UNCHANGED <<kpis, built>>
     ELSE /\ kpis' = calculate_kpis(sales_data, events)
          /\ built' = built \cup {"kpis"}
          /\ pc' = "kpis"
          /\ exc' = exc
  /\ UNCHANGED <<inputs, errors, sales_data, charts>>

Min(S) == CHOOSE x \in S : \A y \in S : x <= y
Max(S) == CHOOSE x \in S : \A y \in S : x >= y

\* What st.sidebar.date_input (lines 352-357) can hand back: a start and an
\* end date between the earliest and the latest event date, or a single date
\* while the user is still choosing.  When no event date parsed, min() and
\* max() are NaT: the widget either raises or hands back dates that no NaT
\* compares with.
DateInputs(rows) ==
  LET days == Keys(rows, "event_time")
  IN IF days = {}
     THEN { [raises |-> TRUE, range |-> << >>],
            [raises |-> FALSE, range |-> <<NULL, NULL>>],
            [raises |-> FALSE, range |-> <<NULL>>] }
     ELSE { [raises |-> FALSE, range |-> <<s, e>>] :
              s \in Min(days)..Max(days), e \in Min(days)..Max(days) }
          \cup { [raises |-> FALSE, range |-> <<Min(days)>>] }

\* Lines 349-354: the value the date widget starts with, the earliest and
\* the latest event date of the view (NaT when no date parsed).
DefaultDateRange(rows) ==
  LET days == Keys(rows, "event_time")
  IN IF days = {} THEN <<NULL, NULL>> ELSE <<Min(days), Max(days)>>

\* Lines 359-362: the mask is False for a row whose date is NaT.
DateMask(rows, date_range) ==
  IF Len(date_range) = 2
  THEN SelectSeq(rows, LAMBDA r : r.event_time # NULL
                                  /\ r.event_time >= date_range[1]
                                  /\ r.event_time <= date_range[2])
  ELSE rows

\* Lines 348-362.
DateFilter ==
  /\ pc = "kpis"
  /\ IF sales_data.rows # << >> /\ "event_time" \in sales_data.cols
     THEN \E d \in DateInputs(sales_data.rows) :
            IF d.raises
            THEN pc' = "uncaught" /\ exc' = "date_input" /\ sales_data' = sales_data
            ELSE /\ sales_data' = [sales_data EXCEPT !.rows = DateMask(@, d.range)]
                 /\ pc' = "date_filtered"
                 /\ exc' = exc
     ELSE pc' = "date_filtered" /\ UNCHANGED <<sales_data, exc>>
  /\ UNCHANGED <<inputs, errors, kpis, charts, built>>

\* Line 366: 'Todas' and the category names of the view.
CategoryChoices(rows) ==
  {"Todas"} \cup ({ rows[i].categoria_nombre : i \in 1..Len(rows) } \ {NoName})

CategoryMask(rows, selected_category) ==
  IF selected_category # "Todas"
  THEN SelectSeq(rows, LAMBDA r : r.categoria_nombre = selected_category)
  ELSE rows

\* Lines 365-370.
CategoryFilter ==
  /\ pc = "date_filtered"
  /\ IF sales_data.rows # << >> /\ "categoria_nombre" \in sales_data.cols
     THEN \E selected_category \in CategoryChoices(sales_data.rows) :
            sales_data' = [sales_data EXCEPT !.rows = CategoryMask(@, selected_category)]
     ELSE sales_data' = sales_data
  /\ pc' = "filtered"
  /\ UNCHANGED <<inputs, errors, kpis, charts, built, exc>>

\* Line 457.
CreateCharts ==
  /\ pc = "filtered"
  /\ IF ChartsRaise(sales_data)
     THEN pc' = "uncaught" /\ exc' = "create_charts" /\ UNCHANGED <<charts, built>>
     ELSE /\ charts' = create_charts(sales_data, events)
          /\ built' = built \cup {"charts"}
          /\ pc' = "charts"
          /\ exc' = exc
  /\ UNCHANGED <<inputs, errors, sales_data, kpis>>

\* Lines 459-633: the charts and tables are drawn.
Render ==
  /\ pc = "charts"
  /\ pc' = "done"
  /\ UNCHANGED <<inputs, errors, sales_data, kpis, charts, built, exc>>

Next ==
  \/ ModuleBody
  \/ LoadData
  \/ LoadFailed
  \/ CreateSalesData
  \/ CalculateKpis
  \/ DateFilter
  \/ CategoryFilter
  \/ CreateCharts
  \/ Render

Spec == Init /\ [][Next]_vars

\* The same script on files whose events have itemid and whose products
\* have precio (the product join and the price are used, nothing is drawn),
\* with one more event row.
JoinProfiles == { p \in Profiles : {"itemid", "precio"} \subseteq p }

JoinEventTables ==
  { [i \in 1..Len(s) |-> EventRows[s[i]]] :
      s \in { t \in IndexSeqs(Len(EventRows), MaxEvents + 1) : Increasing(t, FALSE) } }

InitJoin ==
  /\ pc = "import"
  /\ files \in [Files -> {"ok", "bad"}]
  /\ \/ /\ \A f \in Files : files[f] = "ok"
        /\ profile \in JoinProfiles
        /\ \E t \in JoinEventTables :
             events = [cols |-> profile \cap EventCols,
                       rows |-> [i \in 1..Len(t) |-> ProjectEvent(t[i], profile)]]
        /\ \E t \in ProductTables :
             producto = [i \in 1..Len(t) |-> ProjectProduct(t[i], profile)]
        /\ marca \in MarcaTables
     \/ /\ \E f \in Files : files[f] = "bad"
        /\ profile = {}
        /\ events = NoFrame
        /\ producto = << >>
        /\ marca = << >>
  /\ errors = 0
  /\ sales_data = NoFrame
  /\ kpis = AllZeroKpis
  /\ charts = NoCharts
  /\ built = {}
  /\ exc = "none"

SpecJoin == InitJoin /\ [][Next]_vars

\* ----------------------------------------------------------------- claims
Built(x)  == x \in built
SalesRows == sales_data.rows

\* C1: on a non-empty event table, whatever optional columns are present,
\* create_sales_data, calculate_kpis and create_charts never raise.
C1_NoRaiseOnAnyProfile ==
  events.rows # << >> => exc \notin {"create_sales_data", "calculate_kpis", "create_charts"}

AtLeastOne(x) == ~IsNaN(x) /\ x.num >= x.den

\* C2 as stated: for all inputs the avg_items_per_transaction that
\* calculate_kpis returns is at least 1.0.
C2_AvgItemsAsStated ==
  Built("kpis") => AtLeastOne(kpis.avg_items_per_transaction)

\* The sales view has the transactionid and itemid columns and no record of
\* it has a transaction id: the events had none, and all events were used.
NoTransactionGroups ==
  /\ {"transactionid", "itemid"} \subseteq profile
  /\ \A i \in 1..Len(events.rows) : events.rows[i].transactionid = NULL

\* C2 amended: avg_items_per_transaction is 0 when the sales view is empty
\* or has no visitorid column; otherwise it is NaN exactly when the view has
\* the transactionid and itemid columns and no record has a transaction id,
\* and in every other case it is at least 1.0 (item ids are never null).
C2_AvgItems ==
  Built("kpis") =>
    IF events.rows = << >> \/ "visitorid" \notin profile
    THEN kpis.avg_items_per_transaction = Zero
    ELSE IF NoTransactionGroups
         THEN IsNaN(kpis.avg_items_per_transaction)
         ELSE AtLeastOne(kpis.avg_items_per_transaction)

\* C2 witness: KPIs of a view in which one transaction holds two distinct
\* items, so that the mean is 2.
C2_Witness ==
  /\ Built("kpis") /\ {"visitorid", "transactionid", "itemid"} \subseteq profile
  /\ Len(events.rows) = 2
  /\ kpis.avg_items_per_transaction = [num |-> 2, den |-> 1]

InRange0To100(x) == ~IsNaN(x) /\ x.num >= 0 /\ x.num <= 100 * x.den
Is100(x) == ~IsNaN(x) /\ x.num = 100 * x.den

EveryEventHasTransaction ==
  "transactionid" \in profile /\ \A i \in 1..Len(events.rows) : events.rows[i].transactionid # NULL

\* C3 as stated: for every input the conversion rate lies in [0, 100], and
\* it is 100 when the transaction column exists and every event (there is
\* one) has a transaction id.
C3_ConversionRateAsStated ==
  Built("kpis") =>
    /\ InRange0To100(kpis.conversion_rate)
    /\ (EveryEventHasTransaction /\ events.rows # << >> => Is100(kpis.conversion_rate))

UniqueProductIds ==
  \A i, j \in 1..Len(producto) : producto[i].id = producto[j].id => i = j

\* C3 amended: when no two product rows share an id (category and brand ids
\* are unique in every table of the model), the conversion rate lies in
\* [0, 100]; it is 100 when moreover there is at least one event, the events
\* have the visitorid and transactionid columns and every event has a
\* transaction id.
C3_ConversionRate ==
  (Built("kpis") /\ UniqueProductIds) =>
    /\ InRange0To100(kpis.conversion_rate)
    /\ (EveryEventHasTransaction /\ events.rows # << >> /\ "visitorid" \in profile
          => Is100(kpis.conversion_rate))

\* C3 witness: KPIs computed from two events that both carry a transaction
\* id and were joined to a non-empty product table with unique ids.
C3_Witness ==
  /\ Built("kpis") /\ UniqueProductIds /\ Len(producto) = 2
  /\ EveryEventHasTransaction /\ Len(events.rows) = 2 /\ "visitorid" \in profile
  /\ "itemid" \in profile
  /\ Is100(kpis.conversion_rate)

\* C4: every record of the sales view has a category name and a brand name.
C4_NamesNeverNull ==
  Built("sales_data") =>
    \A i \in 1..Len(SalesRows) :
      SalesRows[i].categoria_nombre # NoName /\ SalesRows[i].marca_nombre # NoName

\* C5: the revenue of the pie chart's rows (main categories and "Otras")
\* adds up to the revenue of the sales records create_charts was given.
C5_BreakdownSumsToTotal ==
  (pc = "charts" /\ SalesRows # << >>) =>
    SumSeq(Revenues(charts.cat_sales_plot)) = SumSeq(Revenues(SalesRows))

C7_NoKpiIsNaN ==
  Built("kpis") =>
    \A k \in DOMAIN kpis : ~IsNaN(kpis[k])

\* C8: when the sales view given to calculate_kpis is empty or has no
\* visitorid column, all six KPIs are 0 and create_charts does not raise.
C8_EmptyOrNoVisitor ==
  /\ (pc = "kpis" /\ (SalesRows = << >> \/ "visitorid" \notin sales_data.cols))
       => kpis = AllZeroKpis
  /\ (events.rows = << >> \/ "visitorid" \notin profile) => exc # "create_charts"

\* C9: the KPIs a finished render cycle shows are those of the filtered
\* sales records, the records create_charts received.
C9_KpisOfFilteredView ==
  pc = "done" => kpis = calculate_kpis(sales_data, events)

\* C10: when a source file is missing or malformed, the failure is reported
\* exactly once, nothing of the dashboard is built and no exception escapes.
C10_LoadFailureReportedOnce ==
  (\E f \in Files : files[f] = "bad") =>
    /\ pc # "uncaught"
    /\ built = {}
    /\ (pc = "halted" => errors = 1)

\* The events create_sales_data keeps: those with a transaction id when the
\* column exists and some event has one, else all of them.
QualifyingEvents ==
  IF "transactionid" \in profile
     /\ \E i \in 1..Len(events.rows) : events.rows[i].transactionid # NULL
  THEN SelectSeq(events.rows, LAMBDA r : r.transactionid # NULL)
  ELSE events.rows

\* C11 as stated: the sales view create_sales_data returns has exactly one
\* record per qualifying event.
C11_OneRecordPerEventAsStated ==
  pc = "sales" => Len(SalesRows) = Len(QualifyingEvents)

\* C11 amended: when no two product rows share an id (category and brand
\* ids are unique in every table of the model), the sales view has exactly
\* one record per qualifying event, matched by a product row or not.
C11_OneRecordPerEvent ==
  (pc = "sales" /\ UniqueProductIds) => Len(SalesRows) = Len(QualifyingEvents)

\* C11 witness: a view built by the product join from two events, one that
\* a product row matches and one that none matches.
C11_Witness ==
  /\ pc = "sales" /\ UniqueProductIds /\ "itemid" \in profile
  /\ Len(SalesRows) = 2
  /\ \E i \in 1..2 : \E j \in 1..Len(producto) : producto[j].id = SalesRows[i].itemid
  /\ \E i \in 1..2 : \A j \in 1..Len(producto) : producto[j].id # SalesRows[i].itemid

\* Every sales view create_sales_data can return for the loaded tables,
\* over all values the random source can give: a category id and a brand
\* id per event (lines 122-124) and a revenue per record (line 146),
\* whether or not they are used.
JoinedOutcomes ==
  LET n        == Len(TransactionFilter(events.rows, "transactionid" \in profile))
      catIds   == { Categoria[i].id : i \in 1..Len(Categoria) }
      marcaIds == IF marca = << >> THEN {NULL} ELSE { marca[i].id : i \in 1..Len(marca) }
  IN { JoinedRows(events.rows, producto, Categoria, marca, profile, rc, rm) :
         rc \in [1..n -> catIds], rm \in [1..n -> marcaIds] }

SalesOutcomes ==
  UNION { LET cols == SalesCols(joined, marca, profile)
          IN { [cols |-> cols,
                rows |-> Revenue(joined, "precio" \in profile /\ "precio" \in cols, rr)] :
                 rr \in [1..Len(joined) -> {RevenueLow, RevenueHigh}] } :
          joined \in JoinedOutcomes }

ColumnComplete == {"transactionid", "itemid", "precio", "marca_id"} \subseteq profile

\* C12: on column-complete input the sales records, the KPIs and the chart
\* aggregations do not depend on the random source: every run on the same
\* tables yields the same sales view, KPIs and aggregation tables.
C12_DeterministicWhenComplete ==
  (pc = "sales" /\ ColumnComplete) =>
    /\ SalesOutcomes = {sales_data}
    /\ Cardinality({ calculate_kpis(sd, events) : sd \in SalesOutcomes }) = 1
    /\ Cardinality({ create_charts(sd, events) : sd \in SalesOutcomes }) = 1

\* C12 witness: a column-complete view of two or more records, one of them
\* with a NaN price (the default revenue), joined to a non-empty brand table.
C12_Witness ==
  /\ pc = "sales" /\ ColumnComplete /\ marca # << >>
  /\ Len(SalesRows) >= 2
  /\ \E i \in 1..Len(SalesRows) :
       SalesRows[i].precio = NULL /\ SalesRows[i].revenue = DefaultPrecio

SameNumber(x, y) == ~IsNaN(x) /\ ~IsNaN(y) /\ x.num * y.den = y.num * x.den

\* The visitors of the view with at least one transaction id, and those
\* among them with more than one distinct transaction id.
TransactionsOf(rows, v) ==
  { rows[i].transactionid : i \in { j \in 1..Len(rows) : rows[j].visitorid = v } } \ {NULL}
Buyers(rows)  == { v \in Keys(rows, "visitorid") : TransactionsOf(rows, v) # {} }
Repeats(rows) == { v \in Keys(rows, "visitorid") : Cardinality(TransactionsOf(rows, v)) > 1 }

\* C13: the tasa_repeticion calculate_kpis returns is 100 times the number
\* of visitors with more than one distinct transaction id over the number
\* of visitors with at least one (0 when there is none); two visitors of
\* whom one has two transactions give 50.
C13_RepeatRate ==
  pc = "kpis" =>
    SameNumber(kpis.tasa_repeticion,
               IF Buyers(SalesRows) = {} THEN Zero
               ELSE [num |-> 100 * Cardinality(Repeats(SalesRows)),
                     den |-> Cardinality(Buyers(SalesRows))])

\* C13 witness: the KPIs of three purchases, two transactions of one
\* visitor and one of another: the rate is 50.
C13_Witness ==
  /\ pc = "kpis" /\ Len(SalesRows) = 3
  /\ Cardinality(Buyers(SalesRows)) = 2 /\ Cardinality(Repeats(SalesRows)) = 1
  /\ SameNumber(kpis.tasa_repeticion, [num |-> 50, den |-> 1])

\* The event a record of the sales view was built from.
EventOf(r) ==
  [visitorid |-> r.visitorid, itemid |-> r.itemid,
   transactionid |-> r.transactionid, event_time |-> r.event_time]

\* C14: the sales view is built from exactly the events with a transaction
\* id when the column exists and some event has one, and from all events
\* when the column exists but no event has one or the column does not exist.
C14_TransactionFiltering ==
  pc = "sales" =>
    { EventOf(SalesRows[i]) : i \in 1..Len(SalesRows) }
      = { QualifyingEvents[i] : i \in 1..Len(QualifyingEvents) }

\* C14 witness: a view built from two events of which only one has a
\* transaction id.
C14_Witness ==
  /\ pc = "sales" /\ "transactionid" \in profile
  /\ Len(events.rows) = 2 /\ Len(QualifyingEvents) = 1
  /\ SalesRows # << >>
  /\ \A i \in 1..Len(SalesRows) : SalesRows[i].transactionid # NULL

\* C15: the date filter with the default range, the earliest to the latest
\* event date, keeps every record of the sales view, a record whose
\* event_time is NaT included.
C15_DefaultRangeKeepsAll ==
  (pc = "kpis" /\ SalesRows # << >> /\ "event_time" \in sales_data.cols) =>
    DateMask(SalesRows, DefaultDateRange(SalesRows)) = SalesRows

====
